---- MODULE Spec2Model ----
(***************************************************************************)
(* Model of webdavfs.py: the remote-backed file handle WebDAVFile (an      *)
(* io.BytesIO buffer `data` with its own cursor, plus the handle's cursor  *)
(* `pos`) and the parts of the filesystem adapter WebDAVFS that open,      *)
(* overwrite and remove files on the remote store.                         *)
(***************************************************************************)
EXTENDS Integers, Sequences, FiniteSets, TLC

\* ---------------------------------------------------------------- bounds
MaxLen == 2      \* longest buffer / remote content
MaxPos == 2      \* largest cursor value explored
MaxWrite == 1    \* longest byte string passed to write / setbytes
MaxOff == 1      \* largest absolute seek offset

Bytes == {0, 1}
Paths == {"/f"}
AllHandles == {1, 2}
Modes == {"r", "r+", "w", "w+", "a", "a+", "x", "x+"}
Whences == {"set", "current", "end"}

Max(a, b) == IF a >= b THEN a ELSE b
Min(a, b) == IF a <= b THEN a ELSE b

SeqsUpTo(n) == UNION {[1..k -> Bytes] : k \in 0..n}
Contents == SeqsUpTo(MaxLen)
WriteArgs == SeqsUpTo(MaxWrite)

\* ------------------------------------------------------------ fs.mode.Mode
reading(m) == m \in {"r", "r+", "w+", "a+", "x+"}
writing(m) == m \in {"w", "a", "x", "r+", "w+", "a+", "x+"}
exclusive(m) == m \in {"x", "x+"}
appending(m) == m \in {"a", "a+"}

\* -------------------------------------------------------------- io.BytesIO
Zeros(n) == [i \in 1..n |-> 0]

\* BytesIO.write(d) with the internal cursor at p: the new content
BytesIO_write(buf, p, d) ==
  IF Len(d) = 0 THEN buf
  ELSE LET end == p + Len(d)
           padded == IF p > Len(buf) THEN buf \o Zeros(p - Len(buf)) ELSE buf
           n == Max(Len(buf), end)
       IN [i \in 1..n |-> IF i > p /\ i <= end THEN d[i - p] ELSE padded[i]]

\* BytesIO.read(size) with the internal cursor at p: the bytes returned
BytesIO_read(buf, p, size) ==
  LET avail == Max(0, Len(buf) - p)
      n == IF size < 0 THEN avail ELSE Min(size, avail)
  IN SubSeq(buf, p + 1, p + n)

\* BytesIO.truncate(size): never extends the buffer
BytesIO_truncate(buf, size) ==
  IF size < Len(buf) THEN SubSeq(buf, 1, size) ELSE buf

\* ------------------------------------------------------------------- state
VARIABLES
  remote,   \* the remote store: path -> [kind, content]
  state,    \* per handle: "none" (no object), "open", "closed"
  path,     \* per handle: self.path
  mode,     \* per handle: self.mode
  data,     \* per handle: content of self.data (io.BytesIO)
  dpos,     \* per handle: internal cursor of self.data
  pos,      \* per handle: self.pos
  last,     \* the last completed call: its arguments and results
  wB,       \* the byte string the round-trip caller writes
  lock,     \* WebDAVFS._lock: the thread that holds it, 0 when free
  thr       \* per thread: the filesystem call it runs and how far it is

hvars == <<state, path, mode, data, dpos, pos>>
cvars == <<wB, lock, thr>>
vars == <<remote, state, path, mode, data, dpos, pos, last, wB, lock, thr>>

Absent == [kind |-> "absent", content |-> <<>>]
Directory == [kind |-> "dir", content |-> <<>>]
File(c) == [kind |-> "file", content |-> c]
RemoteVals == {Absent, Directory} \cup {File(c) : c \in Contents}

\* the record of a call: arguments, results, and whether the handle it ran
\* on was open ("was"). Every call also has failing variants that change
\* nothing but this record, so each call from each state is a proper step.
Call(op, h, p, m, arg, whence, bytes, ret, out, err) ==
  [op |-> op, h |-> h, path |-> p, mode |-> m, arg |-> arg,
   whence |-> whence, bytes |-> bytes, ret |-> ret, out |-> out,
   err |-> err, was |-> state[h]]

\* a call on the handle h
HCall(op, h, arg, whence, bytes, ret, out, err) ==
  Call(op, h, path[h], mode[h], arg, whence, bytes, ret, out, err)

NoCall ==
  [op |-> "init", h |-> 1, path |-> "/f", mode |-> "r", arg |-> 0,
   whence |-> "set", bytes |-> <<>>, ret |-> 0, out |-> <<>>, err |-> "ok",
   was |-> "none"]

\* a thread that runs no filesystem call
Threads == {1, 2}
Idle ==
  [op |-> "none", src |-> "/f", dst |-> "/f", flag |-> FALSE,
   bytes |-> <<>>, pc |-> "done", saw |-> FALSE, err |-> "ok", ret |-> FALSE]
NoThreads == lock = 0 /\ thr = [t \in Threads |-> Idle]

InitHandles ==
  /\ state = [h \in AllHandles |-> "none"]
  /\ path = [h \in AllHandles |-> "/f"]
  /\ mode = [h \in AllHandles |-> "r"]
  /\ data = [h \in AllHandles |-> <<>>]
  /\ dpos = [h \in AllHandles |-> 0]
  /\ pos = [h \in AllHandles |-> 0]
  /\ last = NoCall

Init ==
  /\ remote \in [Paths -> RemoteVals]
  /\ InitHandles
  /\ wB = <<>>
  /\ NoThreads

\* ------------------------------------------------------------ remote client
\* an upload that overwrites the start of the old content and keeps its tail
read_from_overlay(store, p, buf, cursor) ==
  [store EXCEPT ![p] = File(BytesIO_write(store[p].content, 0,
                                          BytesIO_read(buf, cursor, -1)))]

\* Resource.read_from(source): reads the source from its cursor to its end
\* and replaces the remote content with it
read_from(store, p, buf, cursor) ==
  [store EXCEPT ![p] = File(BytesIO_read(buf, cursor, -1))]

\* ------------------------------------------------- WebDAVFS.openbin, getinfo
\* the pre-flight check of openbin on a path whose remote value is r
openbin_check(m, r) ==
  IF r.kind = "absent"
  THEN IF reading(m) THEN "ResourceNotFound"
       ELSE IF exclusive(m) THEN "FileExists" ELSE "ok"
  ELSE IF r.kind = "dir" THEN "FileExpected"
       ELSE IF exclusive(m) THEN "FileExists" ELSE "ok"

\* WebDAVFile._get_file_data: the buffer after the download
get_file_data(r) == IF r.kind = "file" THEN r.content ELSE <<>>

\* the buffer's cursor after _get_file_data
get_file_data_cursor(m, r) ==
  IF r.kind = "file" /\ appending(m) THEN Len(r.content) ELSE 0

\* WebDAVFile.__init__: append modes call the undefined _get_data_size
init_err(m) == IF appending(m) THEN "AttributeError" ELSE "ok"

openbin(h, p, m) ==
  /\ state[h] # "open"
  /\ LET chk == openbin_check(m, remote[p])
         err == IF chk = "ok" THEN init_err(m) ELSE chk
     IN /\ last' = Call("open", h, p, m, 0, "set", <<>>, 0, <<>>, err)
        /\ IF err = "ok"
           THEN /\ state' = [state EXCEPT ![h] = "open"]
                /\ path' = [path EXCEPT ![h] = p]
                /\ mode' = [mode EXCEPT ![h] = m]
                /\ data' = [data EXCEPT ![h] = get_file_data(remote[p])]
                /\ dpos' = [dpos EXCEPT
                             ![h] = get_file_data_cursor(m, remote[p])]
                /\ pos' = [pos EXCEPT ![h] = 0]
           ELSE UNCHANGED hvars
  /\ UNCHANGED <<remote, cvars>>

\* ------------------------------------------------------------- WebDAVFile
length_hint(h) == Len(data[h])

tell(h) == pos[h]

\* a call of tell: it returns self.pos whatever the state of the handle
tell_call(h) ==
  /\ state[h] # "none"
  /\ last' = HCall("tell", h, 0, "set", <<>>, tell(h), <<>>, "ok")
  /\ UNCHANGED <<hvars, remote, cvars>>

\* the assignment to self.pos in read
read_pos(p, size, len) == IF size # -1 THEN p + size ELSE len

read(h, size) ==
  /\ state[h] # "none"
  /\ IF ~reading(mode[h])
     THEN /\ last' = HCall("read", h, size, "set", <<>>, 0, <<>>, "IOError")
          /\ UNCHANGED hvars
     ELSE IF state[h] = "closed"
     THEN \* the closed buffer raises; self.pos is assigned first unless the
          \* right-hand side needs the buffer's length
          /\ last' = HCall("read", h, size, "set", <<>>, 0, <<>>, "ValueError")
          /\ pos' = [pos EXCEPT ![h] = IF size # -1 THEN @ + size ELSE @]
          /\ pos'[h] <= MaxPos
          /\ UNCHANGED <<state, path, mode, data, dpos>>
     ELSE LET out == BytesIO_read(data[h], dpos[h], size)
          IN /\ pos' = [pos EXCEPT ![h] = read_pos(@, size, length_hint(h))]
             /\ pos'[h] <= MaxPos
             /\ dpos' = [dpos EXCEPT ![h] = @ + Len(out)]
             /\ last' = HCall("read", h, size, "set", <<>>, Len(out), out, "ok")
             /\ UNCHANGED <<state, path, mode, data>>
  /\ UNCHANGED <<remote, cvars>>

seek_err(offset, whence) ==
  IF \/ whence = "set" /\ offset < 0
     \/ whence = "end" /\ offset > 0
  THEN "ValueError" ELSE "ok"

\* seek without the clamp at 0
seek_pos_unclamped(p, len, offset, whence) ==
  CASE whence = "set" -> offset
    [] whence = "current" -> p + offset
    [] whence = "end" -> len + offset

\* the assignment to self.pos in seek
seek_pos(p, len, offset, whence) ==
  CASE whence = "set" -> offset
    [] whence = "current" -> Max(0, p + offset)
    [] whence = "end" -> Max(0, len + offset)

seek(h, offset, whence) ==
  /\ state[h] # "none"
  /\ IF seek_err(offset, whence) # "ok"
     THEN /\ last' = HCall("seek", h, offset, whence, <<>>, 0, <<>>,
                           seek_err(offset, whence))
          /\ UNCHANGED hvars
     ELSE IF state[h] = "closed"
     THEN \* self.data.seek raises on the closed buffer, after self.pos was
          \* assigned; from the end, the buffer's length raises first
          /\ last' = HCall("seek", h, offset, whence, <<>>, 0, <<>>, "ValueError")
          /\ pos' = [pos EXCEPT ![h] = IF whence = "end" THEN @
                                       ELSE seek_pos(@, 0, offset, whence)]
          /\ pos'[h] <= MaxPos
          /\ UNCHANGED <<state, path, mode, data, dpos>>
     ELSE /\ pos' = [pos EXCEPT
                      ![h] = seek_pos(@, length_hint(h), offset, whence)]
          /\ pos'[h] <= MaxPos
          /\ dpos' = [dpos EXCEPT ![h] = pos'[h]]
          /\ last' = HCall("seek", h, offset, whence, <<>>, pos'[h], <<>>, "ok")
          /\ UNCHANGED <<state, path, mode, data>>
  /\ UNCHANGED <<remote, cvars>>

\* Python's None as the size of truncate
None == -1

\* the size handed to BytesIO.truncate: None means the buffer's cursor
truncate_size(size, cursor) == IF size = None THEN cursor ELSE size

\* "if size and data_size < size": the number of zero bytes written
truncate_pad(size, data_size) ==
  IF size # None /\ size # 0 /\ data_size < size THEN size - data_size ELSE 0

truncate(h, size) ==
  /\ state[h] # "none"
  /\ IF state[h] = "closed"
     THEN /\ last' = HCall("truncate", h, size, "set", <<>>, 0, <<>>, "ValueError")
          /\ UNCHANGED hvars
     ELSE LET cut == BytesIO_truncate(data[h], truncate_size(size, dpos[h]))
              data_size == Len(cut)
              pad == truncate_pad(size, data_size)
              ret == IF size # None /\ size # 0 THEN size ELSE data_size
          IN /\ data' = [data EXCEPT
                          ![h] = BytesIO_write(cut, dpos[h], Zeros(pad))]
             /\ Len(data'[h]) <= MaxLen
             /\ dpos' = [dpos EXCEPT ![h] = @ + pad]
             /\ last' = HCall("truncate", h, size, "set", <<>>, ret, <<>>, "ok")
             /\ UNCHANGED <<state, path, mode, pos>>
  /\ UNCHANGED <<remote, cvars>>

write(h, d) ==
  /\ state[h] # "none"
  /\ IF ~writing(mode[h])
     THEN /\ last' = HCall("write", h, 0, "set", d, 0, <<>>, "IOError")
          /\ UNCHANGED hvars
     ELSE IF state[h] = "closed"
     THEN /\ last' = HCall("write", h, 0, "set", d, 0, <<>>, "ValueError")
          /\ UNCHANGED hvars
     ELSE LET bytes_written == Len(d)
          IN /\ data' = [data EXCEPT ![h] = BytesIO_write(@, dpos[h], d)]
             /\ Len(data'[h]) <= MaxLen
             \* self.seek(bytes_written, Seek.current)
             /\ pos' = [pos EXCEPT
                         ![h] = seek_pos(@, Len(data'[h]), bytes_written,
                                         "current")]
             /\ pos'[h] <= MaxPos
             /\ dpos' = [dpos EXCEPT ![h] = pos'[h]]
             /\ last' = HCall("write", h, 0, "set", d, bytes_written, <<>>, "ok")
             /\ UNCHANGED <<state, path, mode>>
  /\ UNCHANGED <<remote, cvars>>

\* an upload to a path that is a collection is refused by the remote
upload_err(store, p) == IF store[p].kind = "dir" THEN "TransportError" ELSE "ok"

\* an upload that starts at the buffer's cursor instead of seeking to 0
flush_store_at_cursor(store, h) ==
  IF writing(mode[h]) /\ upload_err(store, path[h]) = "ok"
  THEN read_from(store, path[h], data[h], dpos[h])
  ELSE store

\* the store after flush: data.seek(0), then the upload of the buffer
flush_store(store, h) ==
  IF writing(mode[h]) /\ upload_err(store, path[h]) = "ok"
  THEN read_from(store, path[h], data[h], 0)
  ELSE store

\* the buffer's cursor after flush: the upload read the buffer to its end
flush_cursor(store, h) ==
  IF writing(mode[h])
  THEN IF upload_err(store, path[h]) = "ok" THEN Len(data[h]) ELSE 0
  ELSE dpos[h]

flush_err(store, h) ==
  IF writing(mode[h]) THEN upload_err(store, path[h]) ELSE "ok"

flush(h) ==
  /\ state[h] # "none"
  /\ IF state[h] = "closed"
     THEN \* data.seek raises on the closed buffer of a writable handle
          /\ last' = HCall("flush", h, 0, "set", <<>>, 0, <<>>,
                           IF writing(mode[h]) THEN "ValueError" ELSE "ok")
          /\ UNCHANGED <<hvars, remote>>
     ELSE /\ remote' = flush_store(remote, h)
          /\ dpos' = [dpos EXCEPT ![h] = flush_cursor(remote, h)]
          /\ last' = HCall("flush", h, 0, "set", <<>>, 0, <<>>,
                           flush_err(remote, h))
          /\ UNCHANGED <<state, path, mode, data, pos>>
  /\ UNCHANGED cvars

\* a close that does not look at self.closed
closed_ignored(h) == FALSE

\* self.closed
closed(h) == state[h] = "closed"

close(h) ==
  /\ state[h] # "none"
  /\ IF closed(h)
     THEN /\ last' = HCall("close", h, 0, "set", <<>>, 0, <<>>, "ok")
          /\ UNCHANGED <<hvars, remote>>
     ELSE IF flush_err(remote, h) # "ok"
     THEN \* the failing flush leaves the handle open
          /\ last' = HCall("close", h, 0, "set", <<>>, 0, <<>>,
                           flush_err(remote, h))
          /\ dpos' = [dpos EXCEPT ![h] = flush_cursor(remote, h)]
          /\ UNCHANGED <<state, path, mode, data, pos, remote>>
     ELSE \* self.flush(), then io.IOBase.close flushes once more and sets
          \* closed, then self.data.close() releases the buffer
          /\ remote' = flush_store(flush_store(remote, h), h)
          /\ state' = [state EXCEPT ![h] = "closed"]
          /\ data' = [data EXCEPT ![h] = <<>>]
          /\ dpos' = [dpos EXCEPT ![h] = 0]
          /\ last' = HCall("close", h, 0, "set", <<>>, 0, <<>>, "ok")
          /\ UNCHANGED <<path, mode, pos>>
  /\ UNCHANGED cvars

\* ---------------------------------------------- WebDAVFS.setbytes, remove
setbytes(p, contents) ==
  /\ IF upload_err(remote, p) = "ok"
     THEN remote' = read_from(remote, p, contents, 0)
     ELSE UNCHANGED remote
  /\ last' = Call("setbytes", 1, p, "w", 0, "set", contents, 0, <<>>,
                  upload_err(remote, p))
  /\ UNCHANGED <<hvars, cvars>>

remove_err(r) ==
  IF r.kind = "absent" THEN "ResourceNotFound"
  ELSE IF r.kind = "dir" THEN "FileExpected" ELSE "ok"

remove(p) ==
  /\ IF remove_err(remote[p]) = "ok"
     THEN remote' = [remote EXCEPT ![p] = Absent]
     ELSE UNCHANGED remote
  /\ last' = Call("remove", 1, p, "r", 0, "set", <<>>, 0, <<>>,
                  remove_err(remote[p]))
  /\ UNCHANGED <<hvars, cvars>>

\* ------------------------------------------------------------ one caller
Callers == {1}
ReadSizes == -1 .. MaxPos
SeekOffsets == -MaxOff .. MaxOff
TruncateSizes == {None} \cup 0 .. MaxLen

Next ==
  \/ \E h \in Callers, p \in Paths, m \in Modes : openbin(h, p, m)
  \/ \E h \in Callers, size \in ReadSizes : read(h, size)
  \/ \E h \in Callers, offset \in SeekOffsets, whence \in Whences :
       seek(h, offset, whence)
  \/ \E h \in Callers, size \in TruncateSizes : truncate(h, size)
  \/ \E h \in Callers, d \in WriteArgs : write(h, d)
  \/ \E h \in Callers : tell_call(h)
  \/ \E h \in Callers : flush(h)
  \/ \E h \in Callers : close(h)
  \/ \E p \in Paths, contents \in WriteArgs : setbytes(p, contents)
  \/ \E p \in Paths : remove(p)

Spec == Init /\ [][Next]_vars

\* ------------------------------------------- the round-trip caller of p
\* open(p, "w"); write(B); close; open(p, "r"); read(-1)
RTInit ==
  /\ remote \in [Paths -> RemoteVals \ {Directory}]
  /\ InitHandles
  /\ wB \in Contents
  /\ NoThreads

RTOpenW == last.op = "init" /\ openbin(1, "/f", "w")
RTWrite == last.op = "open" /\ last.h = 1 /\ last.err = "ok" /\ write(1, wB)
RTClose == last.op = "write" /\ close(1)
RTOpenR == last.op = "close" /\ openbin(2, "/f", "r")
RTRead == last.op = "open" /\ last.h = 2 /\ last.err = "ok" /\ read(2, -1)

RTNext == RTOpenW \/ RTWrite \/ RTClose \/ RTOpenR \/ RTRead

SpecRT == RTInit /\ [][RTNext]_vars

\* ------------------------------------- WebDAVFS.removedir, makedir: a tree
\* a caller working on the collection /d, its member /d/a and the file /f
TreePaths == {"/d", "/d/a", "/f"}
parent(p) == IF p = "/d/a" THEN "/d" ELSE "/"
TreeVals == {Absent, Directory} \cup {File(c) : c \in WriteArgs}

\* client.check, client.is_dir; the root always exists and is a collection
exists(store, p) == p = "/" \/ store[p].kind # "absent"
isdir(store, p) == p = "/" \/ store[p].kind = "dir"

\* a member sits in a collection
Consistent(store) ==
  \A p \in DOMAIN store : exists(store, p) => isdir(store, parent(p))

\* a listing that reports no member
client_list_none(store, p) == {}

\* client.list: the members of the collection p
client_list(store, p) ==
  {q \in DOMAIN store : parent(q) = p /\ exists(store, q)}

\* client.clean: deletes p and everything below it
client_clean(store, p) ==
  [q \in DOMAIN store |->
     IF q = p \/ parent(q) = p THEN Absent ELSE store[q]]

removedir_err(store, p) ==
  IF p = "/" THEN "RemoveRootError"
  ELSE IF ~exists(store, p) THEN "ResourceNotFound"
  ELSE IF ~isdir(store, p) THEN "DirectoryExpected"
  ELSE IF client_list(store, p) # {} THEN "DirectoryNotEmpty"
  ELSE "ok"

removedir(p) ==
  /\ IF removedir_err(remote, p) = "ok"
     THEN remote' = client_clean(remote, p)
     ELSE UNCHANGED remote
  /\ last' = Call("removedir", 1, p, "r", 0, "set", <<>>, 0, <<>>,
                  removedir_err(remote, p))
  /\ UNCHANGED <<hvars, cvars>>

\* client.mkdir needs the parent collection
makedir_err(store, p, recreate) ==
  IF p = "/" THEN (IF recreate THEN "ok" ELSE "DirectoryExists")
  ELSE IF recreate /\ isdir(store, p) THEN "ok"
  ELSE IF exists(store, p) THEN "DirectoryExists"
  ELSE IF ~exists(store, parent(p)) THEN "ResourceNotFound"
  ELSE IF ~isdir(store, parent(p)) THEN "TransportError"
  ELSE "ok"

makedir(p, recreate) ==
  /\ IF makedir_err(remote, p, recreate) = "ok" /\ p # "/"
     THEN remote' = [remote EXCEPT ![p] = Directory]
     ELSE UNCHANGED remote
  /\ last' = Call("makedir", 1, p, "r", IF recreate THEN 1 ELSE 0, "set",
                  <<>>, 0, <<>>, makedir_err(remote, p, recreate))
  /\ UNCHANGED <<hvars, cvars>>

\* setbytes below a parent that is no collection: the upload is refused
setbytes_in(p, contents) ==
  IF isdir(remote, parent(p))
  THEN setbytes(p, contents)
  ELSE /\ last' = Call("setbytes", 1, p, "w", 0, "set", contents, 0, <<>>,
                       "RemoteParentNotFound")
       /\ UNCHANGED <<remote, hvars, cvars>>

TreeInit ==
  /\ remote \in {s \in [TreePaths -> TreeVals] : Consistent(s)}
  /\ InitHandles
  /\ wB = <<>>
  /\ NoThreads

TreeNext ==
  \/ \E p \in TreePaths \cup {"/"} : removedir(p)
  \/ \E p \in TreePaths \cup {"/"}, recreate \in BOOLEAN : makedir(p, recreate)
  \/ \E p \in TreePaths, contents \in WriteArgs : setbytes_in(p, contents)
  \/ \E p \in TreePaths : remove(p)

SpecTree == TreeInit /\ [][TreeNext]_vars

\* --------------------------- WebDAVFS.copy, move, setbytes, create: threads
\* Two threads of one WebDAVFS instance, each running one call that targets
\* /c. A step of a thread is one request to the remote together with the
\* local code around it; taking the lock is part of the step that follows it.
LockPaths == {"/a", "/b", "/c"}
LockVals == {Absent} \cup {File(c) : c \in WriteArgs}

Job(op, src, dst, flag, bytes) ==
  [op |-> op, src |-> src, dst |-> dst, flag |-> flag, bytes |-> bytes,
   pc |-> "start", saw |-> FALSE, err |-> "ok", ret |-> FALSE]

\* copy(src, "/c", overwrite), move(src, "/c", overwrite),
\* setbytes("/c", bytes), create("/c", wipe)
LockJobs ==
  {Job(op, src, "/c", ow, <<>>) :
     op \in {"copy", "move"}, src \in {"/a", "/b"}, ow \in BOOLEAN}
  \cup {Job("setbytes", "/c", "/c", FALSE, b) : b \in WriteArgs}
  \cup {Job("create", "/c", "/c", wipe, <<>>) : wipe \in BOOLEAN}

\* a lock that never makes a thread wait
lock_ignored(t) == TRUE

\* with self._lock: the thread enters when no other thread holds the lock
lock_free(t) == lock \in {0, t}

\* the thread t goes on to pc, having seen the answer of self.exists
Goto(t, pc, saw) == [thr EXCEPT ![t].pc = pc, ![t].saw = saw]

\* the call of thread t ends with err and the return value ret
Return(t, saw, err, ret) ==
  [thr EXCEPT ![t].pc = "done", ![t].saw = saw, ![t].err = err,
               ![t].ret = ret]

\* copy: the lock is taken, then "if not overwrite and self.exists(dst)"
copy_check(t) ==
  /\ thr[t].op = "copy" /\ thr[t].pc = "start"
  /\ lock_free(t)
  /\ LET e == exists(remote, thr[t].dst)
     IN IF ~thr[t].flag /\ e
        THEN lock' = 0 /\ thr' = Return(t, e, "DestinationExists", FALSE)
        ELSE lock' = t /\ thr' = Goto(t, "remote", e)
  /\ UNCHANGED <<remote, hvars, last, wB>>

\* copy: client.copy(src, dst) under the lock, which is then released
copy_remote(t) ==
  /\ thr[t].op = "copy" /\ thr[t].pc = "remote"
  /\ IF exists(remote, thr[t].src)
     THEN /\ remote' = [remote EXCEPT ![thr[t].dst] = remote[thr[t].src]]
          /\ thr' = Return(t, thr[t].saw, "ok", TRUE)
     ELSE /\ thr' = Return(t, thr[t].saw, "ResourceNotFound", FALSE)
          /\ UNCHANGED remote
  /\ lock' = 0
  /\ UNCHANGED <<hvars, last, wB>>

\* move: "if not overwrite and self.exists(dst)", before the lock is taken
move_check(t) ==
  /\ thr[t].op = "move" /\ thr[t].pc = "start"
  /\ LET e == exists(remote, thr[t].dst)
     IN IF ~thr[t].flag /\ e
        THEN thr' = Return(t, e, "DestinationExists", FALSE)
        ELSE thr' = Goto(t, "remote", e)
  /\ UNCHANGED <<remote, lock, hvars, last, wB>>

\* move: client.move(src, dst, overwrite) under the lock. A remote asked
\* not to overwrite an existing destination either refuses the request or,
\* when it does not honour the header, replaces the destination.
move_remote(t) ==
  /\ thr[t].op = "move" /\ thr[t].pc = "remote"
  /\ lock_free(t)
  /\ IF ~exists(remote, thr[t].src)
     THEN /\ thr' = Return(t, thr[t].saw, "ResourceNotFound", FALSE)
          /\ UNCHANGED remote
     ELSE \/ /\ remote' = [remote EXCEPT ![thr[t].dst] = remote[thr[t].src],
                                         ![thr[t].src] = Absent]
             /\ thr' = Return(t, thr[t].saw, "ok", TRUE)
          \/ /\ ~thr[t].flag /\ exists(remote, thr[t].dst)
             /\ thr' = Return(t, thr[t].saw, "TransportError", FALSE)
             /\ UNCHANGED remote
  /\ lock' = 0
  /\ UNCHANGED <<hvars, last, wB>>

\* setbytes: resource.read_from(bin_file) under the lock
setbytes_locked(t) ==
  /\ thr[t].op = "setbytes" /\ thr[t].pc = "start"
  /\ lock_free(t)
  /\ remote' = read_from(remote, thr[t].dst, thr[t].bytes, 0)
  /\ thr' = Return(t, FALSE, "ok", TRUE)
  /\ lock' = 0
  /\ UNCHANGED <<hvars, last, wB>>

\* a create that never takes the early return
create_skip_never(wipe, e) == FALSE

\* create: "if not wipe and self.exists(path): return False"
create_skip(wipe, e) == ~wipe /\ e

\* create: the lock is taken, then the existence check
create_check(t) ==
  /\ thr[t].op = "create" /\ thr[t].pc = "start"
  /\ lock_free(t)
  /\ LET e == exists(remote, thr[t].dst)
     IN IF create_skip(thr[t].flag, e)
        THEN lock' = 0 /\ thr' = Return(t, e, "ok", FALSE)
        ELSE lock' = t /\ thr' = Goto(t, "open", e)
  /\ UNCHANGED <<remote, hvars, last, wB>>

\* create: self.open(path, "wb") downloads into the handle of the thread,
\* then new_file.truncate(0)
create_open(t) ==
  /\ thr[t].op = "create" /\ thr[t].pc = "open"
  /\ state' = [state EXCEPT ![t] = "open"]
  /\ path' = [path EXCEPT ![t] = thr[t].dst]
  /\ mode' = [mode EXCEPT ![t] = "w"]
  /\ data' = [data EXCEPT
                ![t] = BytesIO_truncate(get_file_data(remote[thr[t].dst]), 0)]
  /\ dpos' = [dpos EXCEPT ![t] = 0]
  /\ pos' = [pos EXCEPT ![t] = 0]
  /\ thr' = Goto(t, "close", thr[t].saw)
  /\ UNCHANGED <<remote, lock, last, wB>>

\* create: leaving the with block closes the handle, which uploads its
\* buffer; the lock is released and create returns True
create_close(t) ==
  /\ thr[t].op = "create" /\ thr[t].pc = "close"
  /\ remote' = flush_store(flush_store(remote, t), t)
  /\ state' = [state EXCEPT ![t] = "closed"]
  /\ data' = [data EXCEPT ![t] = <<>>]
  /\ thr' = Return(t, thr[t].saw, "ok", TRUE)
  /\ lock' = 0
  /\ UNCHANGED <<path, mode, dpos, pos, last, wB>>

LockInit ==
  /\ remote \in [LockPaths -> LockVals]
  /\ InitHandles
  /\ wB = <<>>
  /\ lock = 0
  /\ thr \in [Threads -> LockJobs]

LockNext ==
  \/ \E t \in Threads : copy_check(t)
  \/ \E t \in Threads : copy_remote(t)
  \/ \E t \in Threads : move_check(t)
  \/ \E t \in Threads : move_remote(t)
  \/ \E t \in Threads : setbytes_locked(t)
  \/ \E t \in Threads : create_check(t)
  \/ \E t \in Threads : create_open(t)
  \/ \E t \in Threads : create_close(t)

SpecLock == LockInit /\ [][LockNext]_vars

\* ----------------------------------- two writable handles on the same path
\* Both handles are opened on /f for writing and written, flushed and closed
\* in any order.
TwoNext ==
  \/ \E h \in AllHandles : openbin(h, "/f", "w")
  \/ \E h \in AllHandles, d \in WriteArgs : write(h, d)
  \/ \E h \in AllHandles : flush(h)
  \/ \E h \in AllHandles : close(h)

SpecTwo == Init /\ [][TwoNext]_vars

\* ------------------------------- WebDAVFS.openbin against a concurrent remove
\* Thread 1 runs openbin("/f", m) in its two parts, the pre-flight check
\* under the lock and the construction of the handle after the lock was
\* released; meanwhile another thread calls remove and setbytes.
openbin_precheck(t, m) ==
  /\ thr[t].op = "openbin" /\ thr[t].pc = "start"
  /\ lock_free(t)
  /\ LET chk == openbin_check(m, remote[thr[t].dst])
     IN IF chk = "ok"
        THEN thr' = Goto(t, "construct", TRUE)
        ELSE thr' = Return(t, FALSE, chk, FALSE)
  \* the arguments the constructor is called with
  /\ path' = [path EXCEPT ![t] = thr[t].dst]
  /\ mode' = [mode EXCEPT ![t] = m]
  /\ UNCHANGED <<remote, state, data, dpos, pos, last, wB, lock>>

\* WebDAVFile(self, path, mode): the download, outside the lock
openbin_construct(t) ==
  /\ thr[t].op = "openbin" /\ thr[t].pc = "construct"
  /\ LET r == remote[path[t]]
     IN IF init_err(mode[t]) = "ok"
        THEN /\ state' = [state EXCEPT ![t] = "open"]
             /\ data' = [data EXCEPT ![t] = get_file_data(r)]
             /\ dpos' = [dpos EXCEPT ![t] = get_file_data_cursor(mode[t], r)]
             /\ pos' = [pos EXCEPT ![t] = 0]
             /\ thr' = Return(t, TRUE, "ok", TRUE)
        ELSE /\ thr' = Return(t, TRUE, init_err(mode[t]), FALSE)
             /\ UNCHANGED <<state, data, dpos, pos>>
  /\ UNCHANGED <<remote, path, mode, last, wB, lock>>

RaceInit ==
  /\ remote \in [Paths -> RemoteVals]
  /\ InitHandles
  /\ wB = <<>>
  /\ lock = 0
  /\ thr = [t \in Threads |->
              IF t = 1 THEN Job("openbin", "/f", "/f", FALSE, <<>>) ELSE Idle]

RaceNext ==
  \/ \E m \in Modes : openbin_precheck(1, m)
  \/ openbin_construct(1)
  \/ \E p \in Paths : remove(p)
  \/ \E p \in Paths, contents \in WriteArgs : setbytes(p, contents)

SpecRace == RaceInit /\ [][RaceNext]_vars

TypeOK ==
  /\ remote \in [Paths -> RemoteVals]
  /\ state \in [AllHandles -> {"none", "open", "closed"}]
  /\ \A h \in AllHandles : Len(data[h]) <= MaxLen /\ dpos[h] \in 0 .. MaxPos
                             /\ pos[h] \in 0 .. MaxPos

\* ------------------------------------------------------------------ claims
\* In the step formulas below the unprimed variables are the state before
\* the call recorded in last' and the primed ones the state after it.

\* the step is a call of op on a handle that was open
OnOpen(op) == last'.op = op /\ last'.was = "open"

\* C1: round trip. Whatever p held before (nothing, or content shorter or
\* longer than B), open(p,"w"); write(B); close; open(p,"r"); read(-1)
\* returns exactly B.
C1_RoundTrip ==
  (last.op = "read" /\ last.h = 2 /\ last.err = "ok") => last.out = wB

\* C2: missing-file policy. On a path that is absent, openFile with r or r+
\* fails with ResourceNotFound and leaves the store unchanged; with w or w+
\* it succeeds with an empty buffer, and closing the handle with that empty
\* buffer leaves a zero-length file at the path.
C2_MissingFilePolicy ==
  [][/\ (last'.op = "open" /\ remote[last'.path].kind = "absent") =>
          /\ last'.mode \in {"r", "r+"} =>
               last'.err = "ResourceNotFound" /\ remote' = remote
          /\ last'.mode \in {"w", "w+"} =>
               /\ last'.err = "ok"
               /\ state'[last'.h] = "open"
               /\ data'[last'.h] = <<>>
     /\ (OnOpen("close") /\ last'.mode \in {"w", "w+"}
           /\ data[last'.h] = <<>>) =>
          remote'[last'.path] = File(<<>>)]_vars

\* C3: exclusive create. openFile with an exclusive mode fails with
\* FileExists exactly when the path exists; on an absent path it succeeds
\* with a writable handle and an empty buffer, and the file exists once the
\* handle is closed.
C3_ExclusiveCreate ==
  [][/\ (last'.op = "open" /\ exclusive(last'.mode)
           /\ remote[last'.path].kind # "dir") =>
          /\ (last'.err = "FileExists") <=> (remote[last'.path].kind = "file")
          /\ remote[last'.path].kind = "absent" =>
               /\ last'.err = "ok"
               /\ state'[last'.h] = "open"
               /\ writing(mode'[last'.h])
               /\ data'[last'.h] = <<>>
     /\ (OnOpen("close") /\ exclusive(last'.mode) /\ last'.err = "ok") =>
          remote'[last'.path].kind = "file"]_vars

\* C4: truncate(size) on a buffer of length L, at any cursor position. With
\* size > L the first L bytes are kept, the buffer is exactly size bytes
\* long, bytes L..size-1 are zero and size is returned; with size < L exactly
\* the first size bytes are kept and size is returned.
C4_TruncateResize ==
  [][(OnOpen("truncate") /\ last'.arg # None) =>
       LET L == Len(data[last'.h])
           buf == data'[last'.h]
           size == last'.arg
       IN /\ size > L =>
               /\ Len(buf) = size
               /\ SubSeq(buf, 1, L) = data[last'.h]
               /\ \A i \in L + 1 .. size : buf[i] = 0
               /\ last'.ret = size
          /\ size < L =>
               /\ buf = SubSeq(data[last'.h], 1, size)
               /\ last'.ret = size]_vars

\* C5: truncate() without a size, at any cursor position, leaves the buffer's
\* content and length unchanged and returns the buffer's length.
C5_TruncateOmitted ==
  [][(OnOpen("truncate") /\ last'.arg = None) =>
       /\ data'[last'.h] = data[last'.h]
       /\ last'.ret = Len(data[last'.h])]_vars

\* C6: read on a readable handle at position p <= L. read(n), n >= 0, returns
\* the min(n, L-p) bytes from offset p and advances the position by the
\* number of bytes returned; read(-1) returns bytes p..L-1 and leaves the
\* position at L. On a handle that is not readable, read fails and changes
\* nothing.
C6_Read ==
  [][OnOpen("read") =>
       LET h == last'.h
           L == Len(data[h])
           p == pos[h]
           n == last'.arg
       IN /\ (reading(last'.mode) /\ p <= L /\ n >= 0) =>
               /\ last'.err = "ok"
               /\ last'.out = SubSeq(data[h], p + 1, p + Min(n, L - p))
               /\ pos'[h] = p + Len(last'.out)
               /\ pos'[h] <= L
          /\ (reading(last'.mode) /\ p <= L /\ n = -1) =>
               /\ last'.err = "ok"
               /\ last'.out = SubSeq(data[h], p + 1, L)
               /\ pos'[h] = L
          /\ ~reading(last'.mode) =>
               /\ last'.err # "ok"
               /\ UNCHANGED <<hvars, remote>>]_vars

\* C7: write(d) on a writable handle, after any earlier calls, stores d at
\* offsets tell()..tell()+len(d)-1, leaves every other byte unchanged,
\* returns len(d) and advances tell() by len(d). On a handle that is not
\* writable, write fails and changes nothing.
C7_Write ==
  [][OnOpen("write") =>
       LET h == last'.h
           old == data[h]
           p == tell(h)
           d == last'.bytes
           buf == data'[h]
       IN /\ writing(last'.mode) =>
               /\ last'.err = "ok"
               /\ Len(buf) = Max(Len(old), IF Len(d) = 0 THEN 0 ELSE p + Len(d))
               /\ \A i \in 1 .. Len(d) : buf[p + i] = d[i]
               /\ \A j \in 1 .. Len(old) :
                     (j <= p \/ j > p + Len(d)) => buf[j] = old[j]
               /\ last'.ret = Len(d)
               /\ pos'[h] = p + Len(d)
          /\ ~writing(last'.mode) =>
               /\ last'.err # "ok"
               /\ UNCHANGED <<hvars, remote>>]_vars

\* C8: seek bounds on an open handle. From the start a negative offset fails
\* and any other offset becomes the position; from the current position the
\* result is max(0, position + offset) and the call never fails; from the end
\* a positive offset fails and any other gives max(0, length + offset). A
\* successful seek returns the new position, which tell() then returns; a
\* failing seek leaves the position unchanged; the position is never
\* negative (for read sizes of -1 or more).
C8_SeekBounds ==
  [][/\ OnOpen("seek") =>
          LET h == last'.h
              p == pos[h]
              L == Len(data[h])
              off == last'.arg
              failed == last'.err # "ok"
          IN /\ last'.whence = "set" =>
                  /\ failed <=> off < 0
                  /\ ~failed => pos'[h] = off
             /\ last'.whence = "current" =>
                  /\ ~failed
                  /\ pos'[h] = Max(0, p + off)
             /\ last'.whence = "end" =>
                  /\ failed <=> off > 0
                  /\ ~failed => pos'[h] = Max(0, L + off)
             /\ ~failed => last'.ret = pos'[h]
             /\ failed => pos'[h] = p
     /\ \A h \in AllHandles : pos'[h] >= 0]_vars

\* C8 witness: a seek from the end that was clamped to 0 (seek leaves the
\* buffer as it is, so its length is the length the seek saw)
C8_Witness ==
  /\ last.op = "seek"
  /\ last.was = "open"
  /\ last.whence = "end"
  /\ Len(data[last.h]) + last.arg < 0
  /\ last.err = "ok"
  /\ last.ret = 0
  /\ tell(last.h) = 0

\* C9: initial cursor. A handle opened in an append mode on an existing file
\* of length L is constructed with the remote content as its buffer and
\* position L; a handle opened in any other mode starts at position 0.
C9_InitialCursor ==
  [][last'.op = "open" =>
       LET h == last'.h
           r == remote[last'.path]
       IN /\ (appending(last'.mode) /\ r.kind = "file") =>
               /\ last'.err = "ok"
               /\ state'[h] = "open"
               /\ data'[h] = r.content
               /\ pos'[h] = Len(r.content)
          /\ (~appending(last'.mode) /\ last'.err = "ok") => pos'[h] = 0]_vars

\* C10: close is idempotent. The first close of a writable handle uploads
\* the whole buffer (the remote content is then the buffer), releases the
\* buffer and marks the handle closed; a later close uploads nothing and
\* changes neither the handle nor the remote, whatever the remote holds by
\* then.
C10_CloseIdempotent ==
  [][/\ (OnOpen("close") /\ writing(last'.mode) /\ last'.err = "ok") =>
          /\ remote'[last'.path] = File(data[last'.h])
          /\ state'[last'.h] = "closed"
          /\ data'[last'.h] = <<>>
     /\ (last'.op = "close" /\ last'.was = "closed") =>
          /\ last'.err = "ok"
          /\ state'[last'.h] = "closed"
          /\ UNCHANGED <<hvars, remote>>]_vars

\* C10 witness: a second close of a writable handle whose path another
\* caller removed after the first close; an upload would have re-created it
C10_Witness ==
  /\ last.op = "close"
  /\ last.was = "closed"
  /\ writing(last.mode)
  /\ remote[last.path].kind = "absent"

\* C11: use after close. On a closed handle every operation other than close
\* (read, write, seek, tell, truncate, flush) fails with an error, uploads
\* nothing and leaves the position as it was.
C11_UseAfterClose ==
  [][(/\ last'.op \in {"read", "write", "seek", "tell", "truncate", "flush"}
      /\ last'.was = "closed") =>
        /\ last'.err # "ok"
        /\ remote' = remote
        /\ pos'[last'.h] = pos[last'.h]]_vars

\* C17: position invariant. After every completed operation on an open
\* handle the position lies between 0 and the length of the buffer.
C17_PositionInvariant ==
  \A h \in AllHandles :
    state[h] = "open" => (0 <= pos[h] /\ pos[h] <= Len(data[h]))

\* C18: cursor consistency. After every completed operation on an open
\* handle the position equals the internal offset of the buffer.
C18_CursorConsistency ==
  \A h \in AllHandles : state[h] = "open" => pos[h] = dpos[h]

\* C19: uploads happen only on flush and close. A handle changes the remote
\* only through flush or close of a writable handle, and each such upload
\* replaces the remote content of its path with the whole buffer, wherever
\* the cursor is; read, write, seek, tell and truncate never change the
\* remote, and no operation on a read-only handle changes it.
C19_UploadOnlyOnFlush ==
  [][/\ last'.op \in {"read", "write", "seek", "tell", "truncate"} =>
          remote' = remote
     /\ (last'.op \in {"read", "write", "seek", "tell", "truncate", "flush",
                       "close"} /\ ~writing(last'.mode)) =>
          remote' = remote
     /\ (/\ last'.op \in {"flush", "close"}
         /\ last'.was = "open"
         /\ writing(last'.mode)
         /\ last'.err = "ok") =>
          remote' = [remote EXCEPT ![last'.path] = File(data[last'.h])]]_vars

\* C19 witness: a flush of a writable handle whose cursor stood in the
\* middle of the buffer, after which the remote holds the whole buffer
C19_Witness ==
  /\ last.op = "flush"
  /\ last.was = "open"
  /\ writing(last.mode)
  /\ last.err = "ok"
  /\ 0 < pos[last.h]
  /\ pos[last.h] < Len(data[last.h])
  /\ remote[last.path] = File(data[last.h])

\* C12: removedir. removedir(d) deletes d only when d exists, is a
\* collection, is not the root and has no member; it fails with
\* RemoveRootError for "/", ResourceNotFound when d is absent,
\* DirectoryExpected when d is a file and DirectoryNotEmpty when d has a
\* member, and every failing call leaves the remote unchanged.
C12_RemoveDir ==
  [][last'.op = "removedir" =>
       LET d == last'.path
           members == {q \in DOMAIN remote :
                         parent(q) = d /\ remote[q].kind # "absent"}
       IN /\ d = "/" => last'.err = "RemoveRootError"
          /\ (d # "/" /\ remote[d].kind = "absent") =>
               last'.err = "ResourceNotFound"
          /\ (d # "/" /\ remote[d].kind = "file") =>
               last'.err = "DirectoryExpected"
          /\ (d # "/" /\ remote[d].kind = "dir" /\ members # {}) =>
               last'.err = "DirectoryNotEmpty"
          /\ (d # "/" /\ remote[d].kind = "dir" /\ members = {}) =>
               /\ last'.err = "ok"
               /\ remote' = [remote EXCEPT ![d] = Absent]
          /\ last'.err # "ok" => remote' = remote]_vars

\* C12 witness: a removedir refused because the collection has a member,
\* which is still there
C12_Witness ==
  /\ last.op = "removedir"
  /\ last.err = "DirectoryNotEmpty"
  /\ last.path = "/d"
  /\ remote["/d"].kind = "dir"
  /\ remote["/d/a"].kind # "absent"

\* the step is a step of the call op of thread t
StepOf(t, op) == thr[t].op = op /\ thr'[t] # thr[t]

\* both threads ran op(.., dst, flag = FALSE) to the end, and dst was absent
\* when the first of them looked
BothOnAbsent(op) ==
  /\ \A t \in Threads :
       thr[t].op = op /\ ~thr[t].flag /\ thr[t].pc = "done"
  /\ \E t \in Threads : ~thr[t].saw

\* C13: copy without overwrite. copy(src, dst, overwrite=False) never
\* replaces an existing dst: when dst exists at its check it fails with
\* DestinationExists and leaves the remote unchanged, and no call that takes
\* the lock creates dst between the check and the remote copy, so of two
\* concurrent copies of existing sources onto an absent dst exactly one
\* succeeds. With overwrite=True the content of dst becomes that of src.
C13_CopyNoOverwrite ==
  [][/\ \A t \in Threads : StepOf(t, "copy") =>
          LET j == thr[t]
          IN /\ (j.pc = "start" /\ ~j.flag /\ remote[j.dst].kind # "absent") =>
                  /\ thr'[t].pc = "done"
                  /\ thr'[t].err = "DestinationExists"
                  /\ remote' = remote
             /\ (j.pc = "remote" /\ ~j.flag) => remote[j.dst].kind = "absent"
             /\ (j.pc = "remote" /\ j.flag /\ remote[j.src].kind # "absent") =>
                  /\ thr'[t].err = "ok"
                  /\ remote'[j.dst] = remote[j.src]
     /\ (/\ BothOnAbsent("copy")'
         /\ \A t \in Threads : remote'[thr'[t].src].kind # "absent") =>
          \E t \in Threads :
            /\ thr'[t].err = "ok"
            /\ thr'[3 - t].err = "DestinationExists"]_vars

\* C13 witness: two copies of different content onto the absent /c have
\* ended, thread 2 won and thread 1 was refused
C13_Witness ==
  /\ BothOnAbsent("copy")
  /\ thr[1].src # thr[2].src
  /\ remote[thr[1].src] # remote[thr[2].src]
  /\ thr[1].err = "DestinationExists"
  /\ thr[2].err = "ok"
  /\ remote["/c"] = remote[thr[2].src]

\* C14: move without overwrite. The existence check of the destination and
\* the remote move are one step under the lock: no call that takes the lock
\* creates dst between them, and whenever dst exists when the remote move
\* would be issued, move fails with DestinationExists and issues no remote
\* move.
C14_MoveAtomic ==
  [][\A t \in Threads : (StepOf(t, "move") /\ ~thr[t].flag) =>
       LET j == thr[t]
       IN /\ (j.pc = "start" /\ remote[j.dst].kind # "absent") =>
               /\ thr'[t].pc = "done"
               /\ thr'[t].err = "DestinationExists"
               /\ remote' = remote
          /\ j.pc = "remote" => remote[j.dst].kind = "absent"]_vars

\* C15: create without wipe. create(p, wipe=False) returns False and leaves
\* the remote unchanged when p exists at its check; check, open, truncate
\* and upload are one step under the lock, so p is still absent when the
\* empty buffer is uploaded and no content stored by another call that
\* takes the lock is truncated; of two concurrent creates of an absent p
\* exactly one returns True.
C15_CreateIfAbsent ==
  [][/\ \A t \in Threads : (StepOf(t, "create") /\ ~thr[t].flag) =>
          LET j == thr[t]
          IN /\ (j.pc = "start" /\ remote[j.dst].kind # "absent") =>
                  /\ thr'[t].pc = "done"
                  /\ thr'[t].ret = FALSE
                  /\ remote' = remote
             /\ j.pc \in {"open", "close"} => remote[j.dst].kind = "absent"
             /\ j.pc = "close" =>
                  /\ thr'[t].ret = TRUE
                  /\ remote' = [remote EXCEPT ![j.dst] = File(<<>>)]
     /\ BothOnAbsent("create")' =>
          \E t \in Threads : thr'[t].ret = TRUE /\ thr'[3 - t].ret = FALSE]_vars

\* C15 witness: two creates of the absent /c have ended, thread 1 created
\* the empty file and thread 2 returned False
C15_Witness ==
  /\ BothOnAbsent("create")
  /\ thr[1].ret = TRUE
  /\ thr[2].ret = FALSE
  /\ thr[2].saw
  /\ remote["/c"] = File(<<>>)

\* C16: last flush wins. With two writable handles open on the same path, a
\* call on one handle never changes the buffer or the position of the
\* other, the remote changes only when a handle uploads, and each upload
\* makes the remote content the complete buffer of the uploading handle: after
\* both were flushed or closed in any order the remote holds the buffer of
\* the handle that uploaded last, never a mixture.
C16_LastFlushWins ==
  [][last'.op \in {"open", "write", "flush", "close"} =>
       LET h == last'.h
           o == 3 - h
       IN /\ data'[o] = data[o] /\ pos'[o] = pos[o] /\ dpos'[o] = dpos[o]
          /\ state'[o] = state[o]
          /\ remote' # remote => last'.op \in {"flush", "close"}
          /\ (/\ last'.op \in {"flush", "close"}
              /\ last'.was = "open"
              /\ last'.err = "ok") =>
               remote'["/f"] = File(data[h])]_vars

\* C16 witness: both handles are open with different non-empty buffers,
\* handle 2 holds the shorter one and uploaded last, and the remote holds
\* exactly the buffer of handle 2
C16_Witness ==
  /\ state[1] = "open" /\ state[2] = "open"
  /\ last.op = "flush" /\ last.h = 2 /\ last.err = "ok"
  /\ data[2] # <<>>
  /\ Len(data[1]) > Len(data[2])
  /\ dpos[1] = Len(data[1])
  /\ remote["/f"] = File(data[2])

\* C20: open for reading never materializes a missing file. Under any
\* interleaving with a concurrent remove, openbin(p, "r") either fails with
\* ResourceNotFound or returns a handle whose buffer is the content p had
\* when it was downloaded; it never returns a readable handle with an empty
\* buffer for a path that was absent at the download.
C20_OpenForReading ==
  [][\A t \in Threads : (StepOf(t, "openbin") /\ mode'[t] = "r") =>
       LET r == remote[thr[t].dst]
       IN /\ (thr[t].pc = "start" /\ r.kind = "absent") =>
               /\ thr'[t].pc = "done"
               /\ thr'[t].err = "ResourceNotFound"
          /\ thr[t].pc = "construct" =>
               IF r.kind = "absent"
               THEN thr'[t].err = "ResourceNotFound" /\ state'[t] # "open"
               ELSE /\ thr'[t].err = "ok"
                    /\ state'[t] = "open"
                    /\ data'[t] = r.content]_vars

====
